---- MODULE Spec2Model ----
(***************************************************************************)
(* Model of xmldsigjs: the KeyInfoX509Data clause (src/key/x509_data.ts)   *)
(* and the SignatureAlgorithm abstraction (src/algorithm.ts).              *)
(*                                                                         *)
(* Conventions.                                                            *)
(*  - A JavaScript string is a sequence of code units (naturals).          *)
(*  - A Uint8Array is a sequence of naturals below 256.                    *)
(*  - A nullable JavaScript value is a sequence of length 0 (null or       *)
(*    undefined) or 1 (the value): Null, Some(v).                          *)
(*  - A DOM element is a record [tag, text, children].                     *)
(***************************************************************************)
EXTENDS Integers, Sequences, FiniteSets, TLC

----------------------------------------------------------------------------
(* Bounds of the model *)

\* most entries the four collections hold together before Add* stops firing
MaxEntries == 3
\* most children of a document handed to LoadXml when parsing is studied
MaxDocChildren == 3
\* most code units of a signedInfo text
MaxText == 2

----------------------------------------------------------------------------
(* Nullable values *)

Null == <<>>
Some(v) == <<v>>
IsNull(o) == o = <<>>
Val(o) == o[1]
\* the entries of a lazily allocated list (none while it is undefined)
Items(list) == IF IsNull(list) THEN <<>> ELSE Val(list)

----------------------------------------------------------------------------
(* Codec: Convert of xmljs *)

Pad == 61

B64Alphabet ==
    [i \in 1..64 |-> IF i <= 26 THEN 64 + i
                     ELSE IF i <= 52 THEN 70 + i
                     ELSE IF i <= 62 THEN i - 5
                     ELSE IF i = 63 THEN 43 ELSE 47]

B64Enc(v) == B64Alphabet[v + 1]
B64Dec(c) == IF c = Pad THEN 0 ELSE (CHOOSE i \in 1..64 : B64Alphabet[i] = c) - 1

RECURSIVE ToBase64(_)
ToBase64(bytes) ==
    IF Len(bytes) = 0 THEN <<>>
    ELSE LET n  == Len(bytes)
             b1 == bytes[1]
             b2 == IF n >= 2 THEN bytes[2] ELSE 0
             b3 == IF n >= 3 THEN bytes[3] ELSE 0
             w  == b1 * 65536 + b2 * 256 + b3
             c1 == B64Enc(w \div 262144)
             c2 == B64Enc((w \div 4096) % 64)
             c3 == IF n >= 2 THEN B64Enc((w \div 64) % 64) ELSE Pad
             c4 == IF n >= 3 THEN B64Enc(w % 64) ELSE Pad
         IN  <<c1, c2, c3, c4>> \o
             (IF n > 3 THEN ToBase64(SubSeq(bytes, 4, n)) ELSE <<>>)

RECURSIVE FromBase64(_)
FromBase64(text) ==
    IF Len(text) < 4 THEN <<>>
    ELSE LET w    == B64Dec(text[1]) * 262144 + B64Dec(text[2]) * 4096
                     + B64Dec(text[3]) * 64 + B64Dec(text[4])
             all  == <<w \div 65536, (w \div 256) % 256, w % 256>>
             keep == IF text[3] = Pad THEN 1 ELSE IF text[4] = Pad THEN 2 ELSE 3
         IN  SubSeq(all, 1, keep) \o FromBase64(SubSeq(text, 5, Len(text)))

\* Convert.FromString(text, "binary"): one byte per code unit
FromBinary(text) == [i \in 1..Len(text) |-> text[i] % 256]

\* Convert.ToString(bytes, "binary"): one code unit per byte
ToBinary(bytes) == [i \in 1..Len(bytes) |-> bytes[i]]

\* UTF-8 bytes of one code unit of the basic plane
Utf8Unit(c) ==
    IF c < 128 THEN <<c>>
    ELSE IF c < 2048 THEN <<192 + (c \div 64), 128 + (c % 64)>>
    ELSE <<224 + (c \div 4096), 128 + ((c \div 64) % 64), 128 + (c % 64)>>

\* Convert.FromString(text, "utf8")
RECURSIVE FromUtf8String(_)
FromUtf8String(text) ==
    IF Len(text) = 0 THEN <<>>
    ELSE Utf8Unit(text[1]) \o FromUtf8String(Tail(text))

----------------------------------------------------------------------------
(* XML-building capability *)

Elem(tag, text, children) == [tag |-> tag, text |-> text, children |-> children]

\* the textContent setter: null becomes the empty string
TextOf(o) == IF IsNull(o) THEN <<>> ELSE Val(o)

RECURSIVE SelectTag(_, _)
SelectTag(children, tag) ==
    IF Len(children) = 0 THEN <<>>
    ELSE (IF children[1].tag = tag THEN <<children[1]>> ELSE <<>>)
         \o SelectTag(Tail(children), tag)

\* XmlObject.GetChildren(localName): the matching children in document order
GetChildren(element, tag) == SelectTag(element.children, tag)

\* XmlObject.GetChild(node, localName, ns, required): the first matching
\* child; when there is none, null, or the throw of ELEMENT_MISSING when
\* the child is required.
GetChild(element, tag, required) ==
    LET found == SelectTag(element.children, tag)
    IN  IF Len(found) > 0 THEN [node |-> Some(found[1]), err |-> "none"]
        ELSE IF required THEN [node |-> Null, err |-> "ELEMENT_MISSING"]
        ELSE [node |-> Null, err |-> "none"]

----------------------------------------------------------------------------
(* Opaque certificate object: X509Certificate of ./x509_certificate *)

\* new X509Certificate(rgbCert)
X509Certificate(rgbCert) == [raw |-> rgbCert]
GetRawCertData(cert) == cert.raw

----------------------------------------------------------------------------
(* KeyInfoX509Data: the operations as functions of the object *)

\* the field initializers: only x509crl, SubjectKeyIdList and key are set
Fresh ==
    [x509crl             |-> Null,
     IssuerSerialList    |-> Null,
     SubjectKeyIdList    |-> Some(<<>>),
     SubjectNameList     |-> Null,
     X509CertificateList |-> Null,
     key                 |-> Null]

\* a call that returned, and a call that threw
Ok(this) == [this |-> this, err |-> "none"]
Throw(this, e) == [this |-> this, err |-> e]

AddCertificate(this, certificate) ==
    IF IsNull(certificate) THEN Throw(this, "PARAM_REQUIRED")
    ELSE LET list == IF IsNull(this.X509CertificateList) THEN <<>>
                     ELSE Val(this.X509CertificateList)
         IN  Ok([this EXCEPT !.X509CertificateList =
                                 Some(Append(list, Val(certificate)))])

\* AddIssuerSerial with the lazy allocation moved above the validation
AddIssuerSerial_AllocatesFirst(this, issuerName, serialNumber) ==
    LET list == IF IsNull(this.IssuerSerialList) THEN <<>>
                ELSE Val(this.IssuerSerialList)
        xis  == [issuerName |-> TextOf(issuerName), serialNumber |-> serialNumber]
    IN  IF IsNull(issuerName)
        THEN Throw([this EXCEPT !.IssuerSerialList = Some(list)], "PARAM_REQUIRED")
        ELSE Ok([this EXCEPT !.IssuerSerialList = Some(Append(list, xis))])

AddIssuerSerial(this, issuerName, serialNumber) ==
    IF IsNull(issuerName) THEN Throw(this, "PARAM_REQUIRED")
    ELSE LET list == IF IsNull(this.IssuerSerialList) THEN <<>>
                     ELSE Val(this.IssuerSerialList)
             xis  == [issuerName |-> Val(issuerName), serialNumber |-> serialNumber]
         IN  Ok([this EXCEPT !.IssuerSerialList = Some(Append(list, xis))])

\* subjectKeyId is [type |-> "string", value |-> base64 text] or
\* [type |-> "bytes", value |-> bytes].  The guard of the first statement
\* holds for every allocated list, so the list is emptied on every call.
AddSubjectKeyId(this, subjectKeyId) ==
    IF IsNull(this.SubjectKeyIdList) THEN Throw(this, "TypeError")
    ELSE LET id == IF subjectKeyId.type = "string"
                   THEN FromBase64(subjectKeyId.value)
                   ELSE subjectKeyId.value
         IN  Ok([this EXCEPT !.SubjectKeyIdList = Some(Append(<<>>, id))])

AddSubjectName(this, subjectName) ==
    LET list == IF IsNull(this.SubjectNameList) THEN <<>>
                ELSE Val(this.SubjectNameList)
    IN  Ok([this EXCEPT !.SubjectNameList = Some(Append(list, subjectName))])

\* set CRL(value)
SetCRL(this, value) == Ok([this EXCEPT !.x509crl = value])

AddCertificatesChainFrom(this, cert, root) == Throw(this, "METHOD_NOT_IMPLEMENTED")

\* the constructor with the chain policies falling through to AddCertificate
Constructor_ChainAddsCertificate(cert, includeOptions) ==
    IF cert.type = "absent" THEN Ok(Fresh)
    ELSE IF cert.type = "bytes"
    THEN AddCertificate(Fresh, Some(X509Certificate(cert.value)))
    ELSE AddCertificate(Fresh, Some(cert.value))

\* cert is [type |-> "absent"], [type |-> "bytes", value |-> bytes] or
\* [type |-> "cert", value |-> certificate]
Constructor(cert, includeOptions) ==
    IF cert.type = "absent" THEN Ok(Fresh)
    ELSE IF cert.type = "bytes"
    THEN AddCertificate(Fresh, Some(X509Certificate(cert.value)))
    ELSE IF includeOptions \in {"None", "EndCertOnly"}
    THEN AddCertificate(Fresh, Some(cert.value))
    ELSE IF includeOptions = "ExcludeRoot"
    THEN AddCertificatesChainFrom(Fresh, cert.value, FALSE)
    ELSE AddCertificatesChainFrom(Fresh, cert.value, TRUE)

\* importKey keeping the key it was handed
ImportKey_StoresKey(this, k) ==
    [this |-> [this EXCEPT !.key = k],
     promise |-> [state |-> "rejected", err |-> "METHOD_NOT_SUPPORTED",
                  delegated |-> FALSE]]

\* importKey(key): Promise.reject(METHOD_NOT_SUPPORTED); no field is written
ImportKey(this, k) ==
    [this |-> this,
     promise |-> [state |-> "rejected", err |-> "METHOD_NOT_SUPPORTED",
                  delegated |-> FALSE]]

\* exportKey(alg): the executor reads Certificates.length.  On an undefined
\* list that read throws and the promise is rejected; on an empty list the
\* executor returns without calling resolve or reject; otherwise the first
\* certificate's exportKey settles the promise.
ExportKey(this, alg) ==
    IF IsNull(this.X509CertificateList)
    THEN [state |-> "rejected", err |-> "TypeError", delegated |-> FALSE]
    ELSE IF Len(Val(this.X509CertificateList)) = 0
    THEN [state |-> "pending", err |-> "none", delegated |-> FALSE]
    ELSE [state |-> "pending", err |-> "none", delegated |-> TRUE]

----------------------------------------------------------------------------
(* GetXml *)

IssuerSerialXml(iser) ==
    Elem("X509IssuerSerial", <<>>,
         <<Elem("X509IssuerName", iser.issuerName, <<>>),
           Elem("X509SerialNumber", TextOf(iser.serialNumber), <<>>)>>)

SKIXml(skid) == Elem("X509SKI", ToBase64(skid), <<>>)
SubjectNameXml(subject) == Elem("X509SubjectName", subject, <<>>)
CertificateXml(x509) == Elem("X509Certificate", ToBase64(GetRawCertData(x509)), <<>>)
CRLXml(crl) == Elem("X509CRL", ToBase64(crl), <<>>)

\* GetXml with the certificates emitted ahead of the other groups
GetXml_CertificatesFirst(this) ==
    LET isl  == Items(this.IssuerSerialList)
        skis == Items(this.SubjectKeyIdList)
        sns  == Items(this.SubjectNameList)
        crts == Items(this.X509CertificateList)
    IN  Elem("X509Data", <<>>,
             [i \in 1..Len(crts) |-> CertificateXml(crts[i])]
             \o [i \in 1..Len(isl) |-> IssuerSerialXml(isl[i])]
             \o [i \in 1..Len(skis) |-> SKIXml(skis[i])]
             \o [i \in 1..Len(sns) |-> SubjectNameXml(sns[i])]
             \o (IF IsNull(this.x509crl) THEN <<>>
                 ELSE <<CRLXml(Val(this.x509crl))>>))

GetXml(this) ==
    LET isl  == Items(this.IssuerSerialList)
        skis == Items(this.SubjectKeyIdList)
        sns  == Items(this.SubjectNameList)
        crts == Items(this.X509CertificateList)
    IN  Elem("X509Data", <<>>,
             [i \in 1..Len(isl) |-> IssuerSerialXml(isl[i])]
             \o [i \in 1..Len(skis) |-> SKIXml(skis[i])]
             \o [i \in 1..Len(sns) |-> SubjectNameXml(sns[i])]
             \o [i \in 1..Len(crts) |-> CertificateXml(crts[i])]
             \o (IF IsNull(this.x509crl) THEN <<>>
                 ELSE <<CRLXml(Val(this.x509crl))>>))

----------------------------------------------------------------------------
(* LoadXml *)

\* the four guarded resets and the unconditional reset of the CRL
ResetLists(this) ==
    [this EXCEPT
       !.IssuerSerialList    = IF IsNull(@) THEN @ ELSE Some(<<>>),
       !.SubjectKeyIdList    = IF IsNull(@) THEN @ ELSE Some(<<>>),
       !.SubjectNameList     = IF IsNull(@) THEN @ ELSE Some(<<>>),
       !.X509CertificateList = IF IsNull(@) THEN @ ELSE Some(<<>>),
       !.x509crl             = Null]

\* one pass of the X509IssuerSerial loop; both children are required
LoadIssuerSerial(this, xel) ==
    LET issuer == GetChild(xel, "X509IssuerName", TRUE)
        serial == GetChild(xel, "X509SerialNumber", TRUE)
    IN  IF issuer.err # "none" THEN Throw(this, issuer.err)
        ELSE IF serial.err # "none" THEN Throw(this, serial.err)
        ELSE IF /\ Val(issuer.node).text # <<>>
                /\ Val(serial.node).text # <<>>
        THEN AddIssuerSerial(this, Some(Val(issuer.node).text),
                             Some(Val(serial.node).text))
        ELSE Ok(this)

LoadSKI(this, xel) ==
    IF xel.text # <<>>
    THEN AddSubjectKeyId(this, [type |-> "bytes", value |-> FromBase64(xel.text)])
    ELSE Ok(this)

LoadSubjectName(this, xel) ==
    IF xel.text # <<>> THEN AddSubjectName(this, xel.text) ELSE Ok(this)

\* the certificate pass without the base64 decoding
LoadCertificate_NoDecode(this, xel) ==
    IF xel.text # <<>>
    THEN AddCertificate(this, Some(X509Certificate(xel.text)))
    ELSE Ok(this)

LoadCertificate(this, xel) ==
    IF xel.text # <<>>
    THEN AddCertificate(this, Some(X509Certificate(FromBase64(xel.text))))
    ELSE Ok(this)

\* a for-of loop over xnl whose body is the pass named by kind; a throw
\* ends the loop and every later statement
RECURSIVE LoadEach(_, _, _)
LoadEach(res, xnl, kind) ==
    IF res.err # "none" \/ Len(xnl) = 0 THEN res
    ELSE LET next == CASE kind = "X509IssuerSerial" -> LoadIssuerSerial(res.this, xnl[1])
                       [] kind = "X509SKI"          -> LoadSKI(res.this, xnl[1])
                       [] kind = "X509SubjectName"  -> LoadSubjectName(res.this, xnl[1])
                       [] OTHER                     -> LoadCertificate(res.this, xnl[1])
         IN  LoadEach(next, Tail(xnl), kind)

LoadCRL(res, element) ==
    IF res.err # "none" THEN res
    ELSE LET x509el == GetChild(element, "X509CRL", FALSE)
         IN  IF ~IsNull(x509el.node) /\ Val(x509el.node).text # <<>>
             THEN Ok([res.this EXCEPT
                        !.x509crl = Some(FromBase64(Val(x509el.node).text))])
             ELSE res

LoadGroup(res, element, kind) == LoadEach(res, GetChildren(element, kind), kind)

LoadXml(this, element) ==
    LET r0 == Ok(ResetLists(this))
        r1 == LoadGroup(r0, element, "X509IssuerSerial")
        r2 == LoadGroup(r1, element, "X509SKI")
        r3 == LoadGroup(r2, element, "X509SubjectName")
        r4 == LoadGroup(r3, element, "X509Certificate")
    IN  LoadCRL(r4, element)

----------------------------------------------------------------------------
(* Cryptographic provider: Application.crypto.subtle *)

\* an unforgeable deterministic signature: the bytes name the algorithm,
\* the key pair and the signed content
Sign(algorithm, signingKey, content) == <<algorithm, signingKey>> \o content
Verify(algorithm, k, signature, content) == signature = Sign(algorithm, k, content)

----------------------------------------------------------------------------
(* SignatureAlgorithm *)

\* the content handed to the provider, and the provider's answer
GetSignature(signedInfo, signingKey, algorithm) ==
    LET content == FromBinary(signedInfo)
    IN  [content |-> content, result |-> Sign(algorithm, signingKey, content)]

VerifySignature(thisAlgorithm, signedInfo, k, signatureValue, algorithm) ==
    LET _signatureValue == FromBinary(signatureValue)
        _signedInfo     == FromUtf8String(signedInfo)
        alg             == IF IsNull(algorithm) THEN thisAlgorithm ELSE Val(algorithm)
    IN  [content |-> _signedInfo,
         result  |-> Verify(alg, k, _signatureValue, _signedInfo)]

----------------------------------------------------------------------------
(* Inputs *)

Certs == {X509Certificate(<<48, 1>>), X509Certificate(<<48, 130, 2, 3>>)}
\* names and serial numbers as callers pass them: absent, empty, or text
IssuerNames == {Null, Some(<<>>), Some(<<65>>)}
SerialNumbers == {Null, Some(<<49>>)}
SubjectNames == {<<>>, <<83>>}
\* "QUJD" is the base64 text of the bytes of "ABC"
SubjectKeyIds ==
    {[type |-> "bytes", value |-> <<>>],
     [type |-> "bytes", value |-> <<7>>],
     [type |-> "string", value |-> <<81, 85, 74, 68>>]}
CRLs == {Null, Some(<<>>), Some(<<1, 2>>)}
IncludeOptions == {"None", "EndCertOnly", "ExcludeRoot", "WholeChain"}
ConstructorCerts ==
    {[type |-> "absent"]}
    \cup {[type |-> "bytes", value |-> GetRawCertData(c)] : c \in Certs}
    \cup {[type |-> "cert", value |-> c] : c \in Certs}

\* children an X509Data element handed to LoadXml is built of
ChildKinds ==
    {IssuerSerialXml([issuerName |-> <<65>>, serialNumber |-> Some(<<49>>)]),
     Elem("X509IssuerSerial", <<>>, <<Elem("X509SerialNumber", <<49>>, <<>>)>>),
     Elem("X509IssuerSerial", <<>>, <<Elem("X509IssuerName", <<65>>, <<>>)>>),
     SKIXml(<<7>>),
     SubjectNameXml(<<83>>),
     CertificateXml(X509Certificate(<<48, 1>>)),
     CRLXml(<<1, 2>>)}

SeqsUpTo(S, n) == UNION {[1..k -> S] : k \in 0..n}

\* elements handed to LoadXml between other calls: no child, or one child
Elements ==
    {Elem("X509Data", <<>>, <<>>)}
    \cup {Elem("X509Data", <<>>, <<c>>) : c \in ChildKinds}

Documents == {Elem("X509Data", <<>>, cs) : cs \in SeqsUpTo(ChildKinds, MaxDocChildren)}

----------------------------------------------------------------------------
(* State *)

VARIABLES
    status,               \* "unconstructed", "live", or "failed" (constructor threw)
    x509crl,
    IssuerSerialList,
    SubjectKeyIdList,
    SubjectNameList,
    X509CertificateList,
    key,
    last                  \* the last call: [op, arg, err, value]

vars == <<status, x509crl, IssuerSerialList, SubjectKeyIdList, SubjectNameList,
          X509CertificateList, key, last>>

fields == <<x509crl, IssuerSerialList, SubjectKeyIdList, SubjectNameList,
            X509CertificateList, key>>

This ==
    [x509crl             |-> x509crl,
     IssuerSerialList    |-> IssuerSerialList,
     SubjectKeyIdList    |-> SubjectKeyIdList,
     SubjectNameList     |-> SubjectNameList,
     X509CertificateList |-> X509CertificateList,
     key                 |-> key]

Assign(this) ==
    /\ x509crl' = this.x509crl
    /\ IssuerSerialList' = this.IssuerSerialList
    /\ SubjectKeyIdList' = this.SubjectKeyIdList
    /\ SubjectNameList' = this.SubjectNameList
    /\ X509CertificateList' = this.X509CertificateList
    /\ key' = this.key

Call(op, arg, err, value) == [op |-> op, arg |-> arg, err |-> err, value |-> value]

Entries ==
    Len(Items(IssuerSerialList)) + Len(Items(SubjectKeyIdList))
    + Len(Items(SubjectNameList)) + Len(Items(X509CertificateList))

Init ==
    /\ status = "unconstructed"
    /\ x509crl = Null
    /\ IssuerSerialList = Null
    /\ SubjectKeyIdList = Null
    /\ SubjectNameList = Null
    /\ X509CertificateList = Null
    /\ key = Null
    /\ last = Call("none", <<>>, "none", <<>>)

----------------------------------------------------------------------------
(* Actions: one per operation of KeyInfoX509Data *)

Construct ==
    /\ status = "unconstructed"
    /\ \E cert \in ConstructorCerts, includeOptions \in IncludeOptions :
         \E r \in {Constructor(cert, includeOptions)} :
             /\ status' = IF r.err = "none" THEN "live" ELSE "failed"
             /\ IF r.err = "none" THEN Assign(r.this) ELSE UNCHANGED fields
             /\ last' = Call("constructor", <<cert, includeOptions>>, r.err, <<>>)

DoAddCertificate ==
    /\ status = "live"
    /\ Entries < MaxEntries
    /\ \E certificate \in {Null} \cup {Some(c) : c \in Certs} :
         \E r \in {AddCertificate(This, certificate)} :
             /\ Assign(r.this)
             /\ last' = Call("AddCertificate", certificate, r.err, <<>>)
    /\ UNCHANGED status

DoAddIssuerSerial ==
    /\ status = "live"
    /\ Entries < MaxEntries
    /\ \E issuerName \in IssuerNames, serialNumber \in SerialNumbers :
         \E r \in {AddIssuerSerial(This, issuerName, serialNumber)} :
             /\ Assign(r.this)
             /\ last' = Call("AddIssuerSerial", <<issuerName, serialNumber>>, r.err, <<>>)
    /\ UNCHANGED status

DoAddSubjectKeyId ==
    /\ status = "live"
    /\ Entries < MaxEntries
    /\ \E subjectKeyId \in SubjectKeyIds :
         \E r \in {AddSubjectKeyId(This, subjectKeyId)} :
             /\ Assign(r.this)
             /\ last' = Call("AddSubjectKeyId", subjectKeyId, r.err, <<>>)
    /\ UNCHANGED status

DoAddSubjectName ==
    /\ status = "live"
    /\ Entries < MaxEntries
    /\ \E subjectName \in SubjectNames :
         \E r \in {AddSubjectName(This, subjectName)} :
             /\ Assign(r.this)
             /\ last' = Call("AddSubjectName", subjectName, r.err, <<>>)
    /\ UNCHANGED status

DoSetCRL ==
    /\ status = "live"
    /\ \E value \in CRLs :
         \E r \in {SetCRL(This, value)} :
             /\ Assign(r.this)
             /\ last' = Call("CRL", value, r.err, <<>>)
    /\ UNCHANGED status

DoGetXml ==
    /\ status = "live"
    /\ last' = Call("GetXml", <<>>, "none", GetXml(This))
    /\ UNCHANGED <<status, fields>>

LoadXmlFrom(elements) ==
    /\ status = "live"
    /\ \E element \in elements :
         \E r \in {LoadXml(This, element)} :
             /\ Assign(r.this)
             /\ last' = Call("LoadXml", element, r.err, <<>>)
    /\ UNCHANGED status

DoLoadXml == LoadXmlFrom(Elements)

DoLoadDocument == LoadXmlFrom(Documents)

\* GetXml() of this instance, then LoadXml() of that element on a fresh one
DoRoundTrip ==
    /\ status = "live"
    /\ last' = Call("RoundTrip", <<>>, "none", LoadXml(Fresh, GetXml(This)))
    /\ UNCHANGED <<status, fields>>

DoImportKey ==
    /\ status = "live"
    /\ \E k \in {Null, Some("CryptoKey")} :
         \E r \in {ImportKey(This, k)} :
             /\ Assign(r.this)
             /\ last' = Call("importKey", k, "none", r.promise)
    /\ UNCHANGED status

DoExportKey ==
    /\ status = "live"
    /\ last' = Call("exportKey", <<>>, "none", ExportKey(This, "alg"))
    /\ UNCHANGED <<status, fields>>

\* the first certificate's exportKey settles the promise it was handed
SettleExport ==
    /\ last.op = "exportKey"
    /\ last.value.state = "pending"
    /\ last.value.delegated
    /\ \/ last' = [last EXCEPT !.value.state = "resolved"]
       \/ last' = [last EXCEPT !.value.state = "rejected",
                               !.value.err = "ProviderFailure"]
    /\ UNCHANGED <<status, fields>>

Next ==
    \/ Construct
    \/ DoAddCertificate
    \/ DoAddIssuerSerial
    \/ DoAddSubjectKeyId
    \/ DoAddSubjectName
    \/ DoSetCRL
    \/ DoGetXml
    \/ DoLoadXml
    \/ DoRoundTrip
    \/ DoImportKey
    \/ DoExportKey
    \/ SettleExport

Spec == Init /\ [][Next]_vars

\* parsing studied on whole documents: the instance is populated by its
\* constructor, by AddCertificate, by CRL assignments and by earlier parses
ParseNext ==
    \/ Construct
    \/ DoAddCertificate
    \/ DoSetCRL
    \/ DoLoadDocument

ParseSpec == Init /\ [][ParseNext]_vars

----------------------------------------------------------------------------
(* SignatureAlgorithm: inputs, actions and specification *)

\* code units: an ASCII letter, a Latin-1 letter, a letter above 255
CodeUnits == {65, 233, 8364}
Texts == SeqsUpTo(CodeUnits, MaxText)
Keys == {1, 2}
Algorithms == {1, 2}
\* the algorithm this SignatureAlgorithm object declares
ThisAlgorithm == 1

DoGetSignature ==
    /\ \E signedInfo \in Texts, signingKey \in Keys, algorithm \in Algorithms :
         last' = Call("getSignature", <<signedInfo, signingKey, algorithm>>, "none",
                      GetSignature(signedInfo, signingKey, algorithm))
    /\ UNCHANGED <<status, fields>>

\* the verifier is handed the signature the signer produced, as binary text
DoVerifySignature ==
    /\ last.op = "getSignature"
    /\ \E signedInfo \in Texts, k \in Keys, signatureValue \in {ToBinary(last.value.result)},
          algorithm \in {Null} \cup {Some(a) : a \in Algorithms} :
         last' = Call("verifySignature", <<signedInfo, k, signatureValue, algorithm>>,
                      "none",
                      VerifySignature(ThisAlgorithm, signedInfo, k, signatureValue,
                                      algorithm))
    /\ UNCHANGED <<status, fields>>

AlgNext ==
    \/ DoGetSignature
    \/ DoVerifySignature

AlgSpec == Init /\ [][AlgNext]_vars

----------------------------------------------------------------------------
(* Properties *)

Certificates == Items(X509CertificateList)
IssuerSerials == Items(IssuerSerialList)
SubjectKeyIdItems == Items(SubjectKeyIdList)
SubjectNameItems == Items(SubjectNameList)

RawOf(certs) == [i \in 1..Len(certs) |-> GetRawCertData(certs[i])]

\* field-for-field equality of two instances, certificates by raw bytes
SameData(a, b) ==
    /\ RawOf(Items(a.X509CertificateList)) = RawOf(Items(b.X509CertificateList))
    /\ Items(a.IssuerSerialList) = Items(b.IssuerSerialList)
    /\ Items(a.SubjectKeyIdList) = Items(b.SubjectKeyIdList)
    /\ Items(a.SubjectNameList) = Items(b.SubjectNameList)
    /\ a.x509crl = b.x509crl

\* no stored text or byte string is empty or absent
NonEmptyData(this) ==
    /\ \A i \in 1..Len(Items(this.IssuerSerialList)) :
         LET iser == Items(this.IssuerSerialList)[i]
         IN  /\ iser.issuerName # <<>>
             /\ ~IsNull(iser.serialNumber)
             /\ Val(iser.serialNumber) # <<>>
    /\ \A i \in 1..Len(Items(this.SubjectKeyIdList)) :
         Items(this.SubjectKeyIdList)[i] # <<>>
    /\ \A i \in 1..Len(Items(this.SubjectNameList)) :
         Items(this.SubjectNameList)[i] # <<>>
    /\ IsNull(this.x509crl) \/ Val(this.x509crl) # <<>>

\* C1 as stated: after GetXml() and LoadXml() on a fresh instance, the copy
\* holds the certificates (by raw bytes), issuerSerials, subjectKeyIds,
\* subjectNames and crl of the original, each collection in its order,
\* whatever the original holds.
C1_RoundTripAlways ==
    last.op = "RoundTrip" =>
        /\ last.value.err = "none"
        /\ SameData(last.value.this, This)

\* C1 amended: the round trip yields the original's certificates, issuer and
\* serial pairs, subject key ids, subject names and crl, in order, provided
\* every stored issuer name, serial number, subject key id, subject name and
\* CRL value is non-empty.
C1_RoundTripNonEmpty ==
    (last.op = "RoundTrip" /\ NonEmptyData(This)) =>
        /\ last.value.err = "none"
        /\ SameData(last.value.this, This)

C1_Witness ==
    /\ last.op = "RoundTrip"
    /\ NonEmptyData(This)
    /\ Len(Certificates) = 2
    /\ Certificates[1] # Certificates[2]
    /\ Len(IssuerSerials) = 1
    /\ ~IsNull(x509crl)

AddOps == {"AddCertificate", "AddIssuerSerial", "AddSubjectKeyId", "AddSubjectName"}

\* the list grew by one entry and kept its entries as a prefix
GrewByOne(before, after) ==
    /\ Len(Items(after)) = Len(Items(before)) + 1
    /\ SubSeq(Items(after), 1, Len(Items(before))) = Items(before)

SameItems(before, after) == Items(after) = Items(before)

\* C2: every successful Add* call grows its own collection by one entry,
\* keeps the previous entries as a prefix, and leaves the other three
\* collections and the CRL unchanged.
C2_AddOnlyAppends ==
    [][(last'.op \in AddOps /\ last'.err = "none") =>
         /\ IF last'.op = "AddCertificate"
            THEN GrewByOne(X509CertificateList, X509CertificateList')
            ELSE SameItems(X509CertificateList, X509CertificateList')
         /\ IF last'.op = "AddIssuerSerial"
            THEN GrewByOne(IssuerSerialList, IssuerSerialList')
            ELSE SameItems(IssuerSerialList, IssuerSerialList')
         /\ IF last'.op = "AddSubjectKeyId"
            THEN GrewByOne(SubjectKeyIdList, SubjectKeyIdList')
            ELSE SameItems(SubjectKeyIdList, SubjectKeyIdList')
         /\ IF last'.op = "AddSubjectName"
            THEN GrewByOne(SubjectNameList, SubjectNameList')
            ELSE SameItems(SubjectNameList, SubjectNameList')
         /\ x509crl' = x509crl]_vars

\* C3: verifySignature hands the provider the bytes getSignature hands it
\* for the same text, and answers true exactly when the signature value is
\* a valid signature over those bytes under the key and the algorithm.
C3_VerifyMatchesSign ==
    last.op = "verifySignature" =>
        LET signedInfo     == last.arg[1]
            k              == last.arg[2]
            signatureValue == last.arg[3]
            alg == IF IsNull(last.arg[4]) THEN ThisAlgorithm ELSE Val(last.arg[4])
            signed == GetSignature(signedInfo, k, alg)
        IN  /\ last.value.content = signed.content
            /\ last.value.result <=> (FromBinary(signatureValue) = signed.result)

\* C4: the promise exportKey returns while the instance holds no
\* certificate is resolved, or is pending with its settlement under way;
\* it is never rejected and never left pending for good.
C4_ExportKeyNoCertificates ==
    (last.op = "exportKey" /\ Len(Certificates) = 0) =>
        \/ last.value.state = "resolved"
        \/ last.value.state = "pending" /\ last.value.delegated

----------------------------------------------------------------------------
(* What an element describes, read off the element alone *)

HasChild(xel, tag) == \E i \in 1..Len(xel.children) : xel.children[i].tag = tag
ChildText(xel, tag) ==
    xel.children[CHOOSE i \in 1..Len(xel.children) :
                    /\ xel.children[i].tag = tag
                    /\ \A j \in 1..(i - 1) : xel.children[j].tag # tag].text

WellFormedIssuerSerial(xel) ==
    /\ HasChild(xel, "X509IssuerName")
    /\ HasChild(xel, "X509SerialNumber")
    /\ ChildText(xel, "X509IssuerName") # <<>>
    /\ ChildText(xel, "X509SerialNumber") # <<>>

\* some X509IssuerSerial child lacks one of its two children
HasMalformedIssuerSerial(element) ==
    \E i \in 1..Len(element.children) :
        /\ element.children[i].tag = "X509IssuerSerial"
        /\ \/ ~HasChild(element.children[i], "X509IssuerName")
           \/ ~HasChild(element.children[i], "X509SerialNumber")

RECURSIVE DescribedIssuerSerials(_)
DescribedIssuerSerials(cs) ==
    IF Len(cs) = 0 THEN <<>>
    ELSE (IF cs[1].tag = "X509IssuerSerial" /\ WellFormedIssuerSerial(cs[1])
          THEN <<[issuerName   |-> ChildText(cs[1], "X509IssuerName"),
                  serialNumber |-> Some(ChildText(cs[1], "X509SerialNumber"))]>>
          ELSE <<>>)
         \o DescribedIssuerSerials(Tail(cs))

\* the texts of the children of one tag that carry text, in document order
RECURSIVE DescribedTexts(_, _)
DescribedTexts(cs, tag) ==
    IF Len(cs) = 0 THEN <<>>
    ELSE (IF cs[1].tag = tag /\ cs[1].text # <<>> THEN <<cs[1].text>> ELSE <<>>)
         \o DescribedTexts(Tail(cs), tag)

DescribedBytes(cs, tag) ==
    LET texts == DescribedTexts(cs, tag)
    IN  [i \in 1..Len(texts) |-> FromBase64(texts[i])]

DescribedCRL(cs) ==
    IF HasChild([children |-> cs], "X509CRL")
       /\ ChildText([children |-> cs], "X509CRL") # <<>>
    THEN Some(FromBase64(ChildText([children |-> cs], "X509CRL")))
    ELSE Null

\* C5: after LoadXml(element) the certificates, issuerSerials,
\* subjectKeyIds, subjectNames and crl are exactly what element describes,
\* whatever the instance held before.  Stated for the elements whose
\* X509IssuerSerial children each have both children; C8 is about the rest.
C5_LoadXmlReplaces ==
    (last.op = "LoadXml" /\ ~HasMalformedIssuerSerial(last.arg)) =>
        LET cs == last.arg.children
        IN  /\ RawOf(Certificates) = DescribedBytes(cs, "X509Certificate")
            /\ IssuerSerials = DescribedIssuerSerials(cs)
            /\ SubjectKeyIdItems = DescribedBytes(cs, "X509SKI")
            /\ SubjectNameItems = DescribedTexts(cs, "X509SubjectName")
            /\ x509crl = DescribedCRL(cs)

----------------------------------------------------------------------------

Rank(tag) ==
    CASE tag = "X509IssuerSerial" -> 1
      [] tag = "X509SKI"          -> 2
      [] tag = "X509SubjectName"  -> 3
      [] tag = "X509Certificate"  -> 4
      [] tag = "X509CRL"          -> 5
      [] OTHER                    -> 0

CountTag(cs, tag) == Cardinality({i \in 1..Len(cs) : cs[i].tag = tag})

\* C6: the children GetXml produces come in the order X509IssuerSerial*,
\* X509SKI*, X509SubjectName*, X509Certificate*, X509CRL?; each collection
\* contributes one child per entry, the CRL at most one child that carries
\* the value assigned last, and an instance with no data no child at all.
C6_GetXmlShape ==
    last.op = "GetXml" =>
        LET cs == last.value.children
        IN  /\ \A i \in 1..Len(cs) : Rank(cs[i].tag) > 0
            /\ \A i, j \in 1..Len(cs) : i < j => Rank(cs[i].tag) <= Rank(cs[j].tag)
            /\ CountTag(cs, "X509IssuerSerial") = Len(IssuerSerials)
            /\ CountTag(cs, "X509SKI") = Len(SubjectKeyIdItems)
            /\ CountTag(cs, "X509SubjectName") = Len(SubjectNameItems)
            /\ CountTag(cs, "X509Certificate") = Len(Certificates)
            /\ CountTag(cs, "X509CRL") = (IF IsNull(x509crl) THEN 0 ELSE 1)
            /\ ~IsNull(x509crl) => cs[Len(cs)].text = ToBase64(Val(x509crl))
            /\ (Entries = 0 /\ IsNull(x509crl)) => Len(cs) = 0

C6_Witness ==
    /\ last.op = "GetXml"
    /\ Len(Certificates) > 0
    /\ Len(IssuerSerials) > 0
    /\ Len(SubjectKeyIdItems) > 0
    /\ ~IsNull(x509crl)

\* C7: AddCertificate with an absent certificate and AddIssuerSerial with an
\* absent issuerName fail with PARAM_REQUIRED and leave the four collections
\* and the CRL as they were.
C7_ValidationBeforeMutation ==
    [][(\/ last'.op = "AddCertificate" /\ IsNull(last'.arg)
        \/ last'.op = "AddIssuerSerial" /\ IsNull(last'.arg[1])) =>
         /\ last'.err = "PARAM_REQUIRED"
         /\ UNCHANGED fields]_vars

C7_Witness ==
    /\ last.op = "AddIssuerSerial"
    /\ IsNull(last.arg[1])
    /\ ~IsNull(last.arg[2])
    /\ last.err = "PARAM_REQUIRED"
    /\ IsNull(IssuerSerialList)
    /\ Len(Certificates) > 0

\* C8: when an X509IssuerSerial child of the element lacks its issuer name
\* or its serial number, LoadXml does not fail, stores the well-formed
\* pairs in document order, and still parses the other groups.
C8_MalformedIssuerSerialSkipped ==
    (last.op = "LoadXml" /\ HasMalformedIssuerSerial(last.arg)) =>
        LET cs == last.arg.children
        IN  /\ last.err = "none"
            /\ IssuerSerials = DescribedIssuerSerials(cs)
            /\ (Len(SubjectKeyIdItems) > 0) <=> (Len(DescribedBytes(cs, "X509SKI")) > 0)
            /\ SubjectNameItems = DescribedTexts(cs, "X509SubjectName")
            /\ RawOf(Certificates) = DescribedBytes(cs, "X509Certificate")
            /\ x509crl = DescribedCRL(cs)

\* C9: construction from raw bytes, or from a certificate with policy None
\* or EndCertOnly, yields an instance holding that one certificate and
\* nothing else; with policy ExcludeRoot or WholeChain it fails with
\* METHOD_NOT_IMPLEMENTED and yields no instance.
C9_ConstructionPolicy ==
    last.op = "constructor" =>
        LET cert           == last.arg[1]
            includeOptions == last.arg[2]
            othersEmpty    == /\ Len(IssuerSerials) = 0
                              /\ Len(SubjectKeyIdItems) = 0
                              /\ Len(SubjectNameItems) = 0
                              /\ IsNull(x509crl)
        IN  /\ cert.type = "bytes" =>
                 /\ status = "live" /\ last.err = "none" /\ othersEmpty
                 /\ RawOf(Certificates) = <<cert.value>>
            /\ (cert.type = "cert" /\ includeOptions \in {"None", "EndCertOnly"}) =>
                 /\ status = "live" /\ last.err = "none" /\ othersEmpty
                 /\ Certificates = <<cert.value>>
            /\ (cert.type = "cert" /\ includeOptions \in {"ExcludeRoot", "WholeChain"}) =>
                 /\ status = "failed" /\ last.err = "METHOD_NOT_IMPLEMENTED"
                 /\ Len(Certificates) = 0

C9_Witness ==
    /\ last.op = "constructor"
    /\ last.arg[1].type = "cert"
    /\ last.arg[2] = "WholeChain"
    /\ status = "failed"

\* C10: importKey returns a promise rejected with METHOD_NOT_SUPPORTED for
\* every argument, and changes none of the collections, the CRL or the key.
C10_ImportKeyRejects ==
    [][last'.op = "importKey" =>
         /\ last'.value.state = "rejected"
         /\ last'.value.err = "METHOD_NOT_SUPPORTED"
         /\ UNCHANGED fields]_vars

C10_Witness ==
    /\ last.op = "importKey"
    /\ ~IsNull(last.arg)
    /\ last.value.state = "rejected"
    /\ Len(Certificates) > 0

====
